---- MODULE Spec2Model ----
(***************************************************************************)
(* LinkedVector (src/src/lib.rs): a singly linked list whose nodes live in *)
(* a Vec and whose links are indices into that Vec, with a free list of    *)
(* vacated slots.                                                          *)
(*                                                                         *)
(* Conventions of the translation                                          *)
(*   Option<X>      a sequence of length <= 1: None is <<>>, Some(x) <<x>> *)
(*   usize index i  the Rust (0-based) index; data[i] is data[i + 1] here  *)
(*   a method       an operator from the receiver (a record of the fields) *)
(*                  to a record [self, kind, val]: the receiver afterwards,*)
(*                  "ok" or "panic", and the returned value as an Option   *)
(*   a panic        ends the run: the fields stay as they were at the      *)
(*                  panicking statement and no further operation is taken  *)
(*   the build      debug_build chooses between the two profiles of cargo: *)
(*                  dev/test (debug_assert! and overflow checks on) and    *)
(*                  release (both off, arithmetic wraps)                   *)
(***************************************************************************)
EXTENDS Integers, Sequences, FiniteSets, TLC

VARIABLES data, head, tail, freelist, length, debug_build, ret, ref, nops,
          max_len

vars == <<data, head, tail, freelist, length, debug_build, ret, ref, nops,
          max_len>>

(***************************************************************************)
(* Bounds of the exploration.                                              *)
(***************************************************************************)
\* operations per run
MaxOps == 6
\* items are drawn from 1..NumValues
NumValues == 2
\* delete and indexing are called with 0..MaxIndex
MaxIndex == 3
\* usize is modelled with UsizeBits bits (TLC's integers cannot hold 2^64);
\* only length is ever subject to wrap-around, and it wraps the same way
\* for any width larger than the number of operations
UsizeBits == 16

Values == 1..NumValues
Modulus == 2 ^ UsizeBits
USIZE_MAX == Modulus - 1

wrapping_add(a, b) == (a + b) % Modulus
wrapping_sub(a, b) == (a - b + Modulus) % Modulus

(***************************************************************************)
(* Option<X>                                                               *)
(***************************************************************************)
None == <<>>
Some(x) == <<x>>
is_some(o) == o # None
is_none(o) == o = None
unwrap(o) == o[1]

(***************************************************************************)
(* LinkedNode and the receiver record                                      *)
(***************************************************************************)
LinkedNode(item, next) == [item |-> item, next |-> next]

Self == [data |-> data, head |-> head, tail |-> tail,
         freelist |-> freelist, length |-> length]

\* data[i] for a usize i
node(self, i) == self.data[i + 1]
in_bounds(self, i) == i >= 0 /\ i < Len(self.data)

set_node(self, i, n) == [self EXCEPT !.data[i + 1] = n]

Ok(self, val) == [self |-> self, kind |-> "ok", val |-> val]
Panic(self) == [self |-> self, kind |-> "panic", val |-> None]

new == [data |-> <<>>, head |-> None, tail |-> None,
        freelist |-> <<>>, length |-> 0]

(***************************************************************************)
(* len, true_len: lib.rs 30-40                                             *)
(***************************************************************************)
\* the condition of the debug_assert_eq! in len() and true_len()
slot_count_ok(self) == Len(self.data) = self.length + Len(self.freelist)

len(self, dbg) ==
    IF dbg /\ ~slot_count_ok(self) THEN Panic(self)
    ELSE Ok(self, Some(self.length))

true_len(self, dbg) ==
    IF dbg /\ ~slot_count_ok(self) THEN Panic(self)
    ELSE Ok(self, Some(Len(self.data)))

(***************************************************************************)
(* mem_used: lib.rs 47-54, for T = u64 (the element type of the crate's    *)
(* tests) on a 64-bit target.  The products stay far below the word size   *)
(* for every list the exploration reaches.                                 *)
(***************************************************************************)
\* size_of::<T>()
SizeOfT == 8
\* size_of::<usize>()
SizeOfUsize == 8

\* mem_used counting the live elements instead of the slots of data
mem_used_of_live(self) ==
    (SizeOfT + SizeOfUsize) * self.length + SizeOfUsize * Len(self.freelist)

mem_used(self) ==
    (SizeOfT + SizeOfUsize) * Len(self.data) + SizeOfUsize * Len(self.freelist)

\* alloc that never looks at the free list: every allocation appends
alloc_always_appends(self, new_node) ==
    LET pushed == [self EXCEPT !.data = Append(self.data, new_node)]
    IN  [self |-> pushed, idx |-> Len(pushed.data) - 1]

(***************************************************************************)
(* alloc: lib.rs 65-76.  Returns the receiver afterwards and the index.    *)
(***************************************************************************)
alloc(self, new_node) ==
    IF self.freelist # <<>>
    THEN \* Some(idx) = self.freelist.pop(): the last index pushed
         LET idx == self.freelist[Len(self.freelist)]
             popped == [self EXCEPT
                          !.freelist = SubSeq(self.freelist, 1, Len(self.freelist) - 1)]
         IN  [self |-> set_node(popped, idx, new_node), idx |-> idx]
    ELSE LET pushed == [self EXCEPT !.data = Append(self.data, new_node)]
         IN  [self |-> pushed, idx |-> Len(pushed.data) - 1]

\* self.length += 1 (panics on overflow when overflow checks are on)
add_length(self, dbg) ==
    IF dbg /\ self.length = USIZE_MAX THEN Panic(self)
    ELSE Ok([self EXCEPT !.length = wrapping_add(self.length, 1)], None)

\* push_front without the test of self.tail: every push moves the tail
push_front_moves_tail(self, item, dbg) ==
    LET new_node == LinkedNode(Some(item), self.head)
        a == alloc(self, new_node)
        nidx == a.idx
        s1 == [a.self EXCEPT !.head = Some(nidx), !.tail = Some(nidx)]
    IN  add_length(s1, dbg)

(***************************************************************************)
(* push_front: lib.rs 78-92                                                *)
(***************************************************************************)
push_front(self, item, dbg) ==
    LET new_node == LinkedNode(Some(item), self.head)
        a == alloc(self, new_node)
        nidx == a.idx
        s1 == [a.self EXCEPT !.head = Some(nidx)]
        s2 == IF s1.tail = None THEN [s1 EXCEPT !.tail = Some(nidx)] ELSE s1
    IN  add_length(s2, dbg)

(***************************************************************************)
(* head, tail (and head_mut, tail_mut): lib.rs 94-108.  The slot is given  *)
(* by its index in data; None when the field is None.                      *)
(***************************************************************************)
head_node(self) == self.head
tail_node(self) == self.tail

\* push_back without the link from the old tail: only self.tail moves
push_back_unlinked(self, item, dbg) ==
    LET a == alloc(self, LinkedNode(Some(item), None))
        nidx == a.idx
        s0 == a.self
        s1 == IF is_some(tail_node(s0))
              THEN [s0 EXCEPT !.tail = Some(nidx)]
              ELSE [s0 EXCEPT !.head = Some(nidx), !.tail = Some(nidx)]
    IN  add_length(s1, dbg)

(***************************************************************************)
(* push_back: lib.rs 110-129                                               *)
(***************************************************************************)
push_back(self, item, dbg) ==
    LET a == alloc(self, LinkedNode(Some(item), None))
        nidx == a.idx
        s0 == a.self
        s1 == IF is_some(tail_node(s0))
              THEN \* tail_node.next = Some(nidx); self.tail = Some(nidx)
                   LET t == unwrap(s0.tail)
                       linked == set_node(s0, t, [node(s0, t) EXCEPT !.next = Some(nidx)])
                   IN  [linked EXCEPT !.tail = Some(nidx)]
              ELSE [s0 EXCEPT !.head = Some(nidx), !.tail = Some(nidx)]
    IN  add_length(s1, dbg)

\* pop_front that gives the slot back to the Vec (data.pop()) when it is the
\* last one of data, instead of recycling it
pop_front_shrinks(self, dbg) ==
    IF dbg /\ self.length = 0 THEN Panic(self)
    ELSE LET s0 == [self EXCEPT !.length = wrapping_sub(self.length, 1)]
         IN  IF is_none(s0.head) THEN Ok(s0, None)
             ELSE LET oidx == unwrap(s0.head)
                      item == node(s0, oidx).item
                      s1 == [s0 EXCEPT !.head = node(s0, oidx).next]
                      s2 == IF oidx = Len(s1.data) - 1
                            THEN [s1 EXCEPT !.data = SubSeq(s1.data, 1, oidx)]
                            ELSE set_node([s1 EXCEPT !.freelist = Append(s1.freelist, oidx)],
                                          oidx, [node(s1, oidx) EXCEPT !.item = None])
                  IN  IF is_none(item) THEN Panic(s2)
                      ELSE Ok(s2, Some(unwrap(item)))

(***************************************************************************)
(* pop_front: lib.rs 131-138                                               *)
(***************************************************************************)
pop_front(self, dbg) ==
    IF dbg /\ self.length = 0
    THEN \* self.length -= 1: attempt to subtract with overflow
         Panic(self)
    ELSE LET s0 == [self EXCEPT !.length = wrapping_sub(self.length, 1)]
         IN  IF is_none(s0.head) THEN Ok(s0, None)
             ELSE LET oidx == unwrap(s0.head)
                      s1 == [s0 EXCEPT !.head = node(s0, oidx).next,
                                       !.freelist = Append(s0.freelist, oidx)]
                      item == node(s1, oidx).item
                      \* .take() leaves None in the slot
                      s2 == set_node(s1, oidx, [node(s1, oidx) EXCEPT !.item = None])
                  IN  IF is_none(item) THEN Panic(s2)   \* .unwrap() of None
                      ELSE Ok(s2, Some(unwrap(item)))

(***************************************************************************)
(* physical_index_of: lib.rs 148-154.  val is Some(physical index).        *)
(***************************************************************************)
RECURSIVE follow_expect(_, _, _)
\* the loop body, n times: current = self.data[current].next.expect(..)
follow_expect(self, current, n) ==
    IF n = 0 THEN Ok(self, Some(current))
    ELSE IF ~in_bounds(self, current) THEN Panic(self)
    ELSE IF is_none(node(self, current).next) THEN Panic(self)
    ELSE follow_expect(self, unwrap(node(self, current).next), n - 1)

physical_index_of(self, index) ==
    IF is_none(self.head) THEN Panic(self)
    ELSE follow_expect(self, unwrap(self.head), index)

\* delete that recycles the predecessor slot instead of the removed one
delete_recycles_prev(self, idx, dbg) ==
    IF dbg /\ ~(idx < self.length) THEN Panic(self)      \* debug_assert!
    ELSE IF idx = 0
    THEN LET p == pop_front(self, dbg)
         IN  IF p.kind = "panic" THEN p
             ELSE IF is_none(p.val) THEN Panic(p.self)   \* .unwrap() of None
             ELSE p
    ELSE LET pp == physical_index_of(self, idx - 1)
         IN  IF pp.kind = "panic" THEN Panic(self)
             ELSE LET prev_phys == unwrap(pp.val)
                  IN  IF ~in_bounds(self, prev_phys) THEN Panic(self)
                      ELSE IF is_none(node(self, prev_phys).next) THEN Panic(self)
                      ELSE LET remove_phys == unwrap(node(self, prev_phys).next)
                           IN  IF ~in_bounds(self, remove_phys) THEN Panic(self)
                               ELSE
    LET s1 == set_node(self, prev_phys,
                       [node(self, prev_phys) EXCEPT !.next = node(self, remove_phys).next])
        s2 == [s1 EXCEPT !.freelist = Append(s1.freelist, prev_phys)]
    IN  IF dbg /\ s2.length = 0 THEN Panic(s2)           \* self.length -= 1
        ELSE LET s3 == [s2 EXCEPT !.length = wrapping_sub(s2.length, 1)]
             IN  \* self.data[idx].item.take().unwrap()
                 IF ~in_bounds(s3, idx) THEN Panic(s3)
                 ELSE LET item == node(s3, idx).item
                          s4 == set_node(s3, idx, [node(s3, idx) EXCEPT !.item = None])
                      IN  IF is_none(item) THEN Panic(s4)
                          ELSE Ok(s4, Some(unwrap(item)))

(***************************************************************************)
(* delete: lib.rs 156-175                                                  *)
(***************************************************************************)
delete(self, idx, dbg) ==
    IF dbg /\ ~(idx < self.length) THEN Panic(self)      \* debug_assert!
    ELSE IF idx = 0
    THEN LET p == pop_front(self, dbg)
         IN  IF p.kind = "panic" THEN p
             ELSE IF is_none(p.val) THEN Panic(p.self)   \* .unwrap() of None
             ELSE p
    ELSE LET pp == physical_index_of(self, idx - 1)
         IN  IF pp.kind = "panic" THEN Panic(self)
             ELSE LET prev_phys == unwrap(pp.val)
                  IN  IF ~in_bounds(self, prev_phys) THEN Panic(self)
                      ELSE IF is_none(node(self, prev_phys).next) THEN Panic(self)
                      ELSE LET remove_phys == unwrap(node(self, prev_phys).next)
                           IN  IF ~in_bounds(self, remove_phys) THEN Panic(self)
                               ELSE
    LET s1 == set_node(self, prev_phys,
                       [node(self, prev_phys) EXCEPT !.next = node(self, remove_phys).next])
        s2 == [s1 EXCEPT !.freelist = Append(s1.freelist, remove_phys)]
    IN  IF dbg /\ s2.length = 0 THEN Panic(s2)           \* self.length -= 1
        ELSE LET s3 == [s2 EXCEPT !.length = wrapping_sub(s2.length, 1)]
             IN  \* self.data[idx].item.take().unwrap()
                 IF ~in_bounds(s3, idx) THEN Panic(s3)
                 ELSE LET item == node(s3, idx).item
                          s4 == set_node(s3, idx, [node(s3, idx) EXCEPT !.item = None])
                      IN  IF is_none(item) THEN Panic(s4)
                          ELSE Ok(s4, Some(unwrap(item)))

(***************************************************************************)
(* Index::index (and IndexMut::index_mut): lib.rs 178-198.  val is         *)
(* Some(physical index of the slot returned).                              *)
(***************************************************************************)
RECURSIVE follow(_, _, _)
\* the loop body, n times: current = self.data[current.expect(..)].next
follow(self, current, n) ==
    IF n = 0 THEN Ok(self, current)
    ELSE IF is_none(current) THEN Panic(self)
    ELSE IF ~in_bounds(self, unwrap(current)) THEN Panic(self)
    ELSE follow(self, node(self, unwrap(current)).next, n - 1)

index(self, i) ==
    LET f == follow(self, self.head, i)
    IN  IF f.kind = "panic" THEN f
        ELSE IF is_none(f.val) THEN Panic(self)
        ELSE IF ~in_bounds(self, unwrap(f.val)) THEN Panic(self)
        ELSE f

(***************************************************************************)
(* Debug for LinkedVector: lib.rs 206-218.  The slots visited from head,   *)
(* following next until None.  A cycle makes the loop run forever; the     *)
(* walk here stops after one slot more than data holds.                    *)
(***************************************************************************)
RECURSIVE walk(_, _, _)
walk(self, idx, fuel) ==
    IF is_none(idx) \/ fuel = 0 THEN <<>>
    ELSE <<unwrap(idx)>> \o walk(self, node(self, unwrap(idx)).next, fuel - 1)

chain(self) == walk(self, self.head, Len(self.data) + 1)

fmt_diverges(self) == Len(chain(self)) > Len(self.data)

\* the items of the slots of the chain, in order, each an Option<T>
items(self) == [k \in 1..Len(chain(self)) |-> node(self, chain(self)[k]).item]

\* Debug for LinkedNode (lib.rs 200-204) unwraps the item of every slot
fmt(self) ==
    IF fmt_diverges(self) THEN [kind |-> "diverges", val |-> <<>>]
    ELSE IF \E k \in 1..Len(chain(self)) : is_none(items(self)[k])
    THEN [kind |-> "panic", val |-> <<>>]
    ELSE [kind |-> "ok", val |-> [k \in 1..Len(chain(self)) |-> unwrap(items(self)[k])]]

(***************************************************************************)
(* The state machine: one LinkedVector<T>, T = Values, driven by a caller. *)
(*   ret   the last call: its name, its argument, "ok" or "panic", and the *)
(*         value it returned                                               *)
(*   ref   the reference sequence of the refinement claim: what a plain    *)
(*         sequence holds after the same calls                             *)
(*   nops  the number of calls made                                        *)
(*   max_len  the largest length the list has had so far                   *)
(***************************************************************************)
Call(op, arg, r) == [op |-> op, arg |-> arg, kind |-> r.kind, val |-> r.val]

\* the fields after a call, as the call left them
Commit(r) ==
    /\ data' = r.self.data
    /\ head' = r.self.head
    /\ tail' = r.self.tail
    /\ freelist' = r.self.freelist
    /\ length' = r.self.length

\* the high-water mark of length, after a call
Observe(r) ==
    max_len' = IF r.self.length > max_len THEN r.self.length ELSE max_len

Running == ret.kind # "panic" /\ nops < MaxOps

remove_at(seq, i) ==
    IF i < Len(seq) THEN SubSeq(seq, 1, i) \o SubSeq(seq, i + 2, Len(seq)) ELSE seq

Init ==
    /\ data = new.data
    /\ head = new.head
    /\ tail = new.tail
    /\ freelist = new.freelist
    /\ length = new.length
    /\ debug_build \in BOOLEAN
    /\ ret = [op |-> "new", arg |-> None, kind |-> "ok", val |-> None]
    /\ ref = <<>>
    /\ nops = 0
    /\ max_len = 0

PushFront ==
    /\ Running
    /\ \E item \in Values :
         /\ Commit(push_front(Self, item, debug_build))
         /\ Observe(push_front(Self, item, debug_build))
         /\ ret' = Call("push_front", Some(item), push_front(Self, item, debug_build))
         /\ ref' = <<item>> \o ref
    /\ nops' = nops + 1
    /\ UNCHANGED debug_build

PushBack ==
    /\ Running
    /\ \E item \in Values :
         /\ Commit(push_back(Self, item, debug_build))
         /\ Observe(push_back(Self, item, debug_build))
         /\ ret' = Call("push_back", Some(item), push_back(Self, item, debug_build))
         /\ ref' = Append(ref, item)
    /\ nops' = nops + 1
    /\ UNCHANGED debug_build

PopFront ==
    /\ Running
    /\ Commit(pop_front(Self, debug_build))
    /\ Observe(pop_front(Self, debug_build))
    /\ ret' = Call("pop_front", None, pop_front(Self, debug_build))
    /\ ref' = remove_at(ref, 0)
    /\ nops' = nops + 1
    /\ UNCHANGED debug_build

Delete ==
    /\ Running
    /\ \E idx \in 0..MaxIndex :
         /\ Commit(delete(Self, idx, debug_build))
         /\ Observe(delete(Self, idx, debug_build))
         /\ ret' = Call("delete", Some(idx), delete(Self, idx, debug_build))
         /\ ref' = remove_at(ref, idx)
    /\ nops' = nops + 1
    /\ UNCHANGED debug_build

Next == PushFront \/ PushBack \/ PopFront \/ Delete

Spec == Init /\ [][Next]_vars

\* a caller that only appends, and one that only prepends
SpecPushBack == Init /\ [][PushBack]_vars
SpecPushFront == Init /\ [][PushFront]_vars

TypeOK ==
    /\ data \in Seq([item : {None} \cup {Some(v) : v \in Values},
                     next : {None} \cup {Some(i) : i \in 0..MaxOps}])
    /\ head \in {None} \cup {Some(i) : i \in 0..MaxOps}
    /\ tail \in {None} \cup {Some(i) : i \in 0..MaxOps}
    /\ freelist \in Seq(0..MaxOps)
    /\ length \in 0..USIZE_MAX
    /\ ret.kind \in {"ok", "panic"}
    /\ nops \in 0..MaxOps

(***************************************************************************)
(* Vocabulary of the claims                                                *)
(***************************************************************************)
Fields == <<data, head, tail, freelist, length>>

\* the argument of the call that leads to the primed state
IsCall(op) == ret.op = op
argument == unwrap(ret.arg)

\* the item held by the slot that list[i] returns
item_at(self, i) == node(self, unwrap(index(self, i).val)).item

\* the chain read as values equals seq
reads_as(self, seq) == fmt(self).kind = "ok" /\ fmt(self).val = seq

\* the last slot of the chain (None for an empty chain)
last_of_chain(self) ==
    IF chain(self) = <<>> THEN None ELSE Some(chain(self)[Len(chain(self))])

(***************************************************************************)
(* C1.  From new(), after any sequence of push_front, push_back, pop_front *)
(* and delete(i) with i < len(), the elements read from head are those of  *)
(* the reference sequence ref, len() is its length, and pop_front/delete   *)
(* return what the reference operation removes.  Stated as the step from a *)
(* list that agrees with ref; pop_front on the empty list (the case of C4) *)
(* is left out, so a violation does not rest on it.                        *)
(***************************************************************************)
C1_agrees == reads_as(Self, ref) /\ length = Len(ref)

C1_in_domain ==
    /\ IsCall("delete")' => argument' < length
    /\ IsCall("pop_front")' => length > 0

C1_removed ==
    IF IsCall("pop_front")' THEN Some(ref[1])
    ELSE IF IsCall("delete")' THEN Some(ref[argument' + 1])
    ELSE None

C1_RefinesSequence ==
    [][ (C1_agrees /\ C1_in_domain)
          => (ret'.kind = "ok" /\ C1_agrees' /\ ret'.val = C1_removed) ]_vars

(***************************************************************************)
(* C2.  delete(i) with i < len() returns the element at logical position i *)
(* (the item of list[i] before the call), removes exactly it, decrements   *)
(* len() by one and leaves the other elements and their order unchanged.   *)
(* Stated for lists on which the slot-count assertion of len() holds.      *)
(***************************************************************************)
C2_DeleteRemovesIth ==
    [][ (IsCall("delete")' /\ argument' < length /\ slot_count_ok(Self))
          => /\ ret'.kind = "ok"
             /\ index(Self, argument').kind = "ok"
             /\ ret'.val = item_at(Self, argument')
             /\ length' = length - 1
             /\ items(Self)' = remove_at(items(Self), argument') ]_vars

(***************************************************************************)
(* C3.  After every operation: len() = 0, head absent and tail absent are  *)
(* all true or all false.  Stated for lists on which the slot-count        *)
(* assertion of len() holds (which leaves out the wrapped length of C4).   *)
(***************************************************************************)
C3_EmptyIffNoHeadNoTail ==
    slot_count_ok(Self) =>
        /\ (length = 0) <=> is_none(head_node(Self))
        /\ is_none(head_node(Self)) <=> is_none(tail_node(Self))

(***************************************************************************)
(* C4.  pop_front() on an empty list is no error: it returns None and      *)
(* leaves length, head, tail, data and the free list unchanged.            *)
(***************************************************************************)
C4_PopFrontOnEmpty ==
    [][ (IsCall("pop_front")' /\ length = 0)
          => (ret'.kind = "ok" /\ ret'.val = None /\ UNCHANGED Fields) ]_vars

(***************************************************************************)
(* C5.  delete(i) and list[i] with i >= len() fail, return no element and  *)
(* leave every field as it was.                                            *)
(***************************************************************************)
C5_OutOfBoundsFails ==
    [][ /\ \A i \in 0..MaxIndex : i >= length => index(Self, i).kind = "panic"
        /\ (IsCall("delete")' /\ argument' >= length)
             => (ret'.kind = "panic" /\ UNCHANGED Fields) ]_vars

(***************************************************************************)
(* C6.  On a non-empty list delete(len()-1) and list[len()-1] succeed and  *)
(* operate on the tail, the last element in logical order.  Stated for     *)
(* lists on which the slot-count assertion of len() holds.                 *)
(***************************************************************************)
C6_LastIndexIsTail ==
    [][ (length >= 1 /\ slot_count_ok(Self))
          => /\ index(Self, length - 1).kind = "ok"
             /\ index(Self, length - 1).val = last_of_chain(Self)
             /\ (IsCall("delete")' /\ argument' = length - 1)
                  => /\ ret'.kind = "ok"
                     /\ ret'.val = item_at(Self, length - 1)
                     /\ items(Self)' = SubSeq(items(Self), 1, length - 1) ]_vars

(***************************************************************************)
(* C7.  On a non-empty list head() is the slot of list[0] and tail() the   *)
(* slot of list[len()-1], whose item is present.  Stated for lists on      *)
(* which the slot-count assertion of len() holds.                          *)
(***************************************************************************)
C7_HeadTailAreEnds ==
    (length >= 1 /\ slot_count_ok(Self))
        => /\ index(Self, 0).kind = "ok"
           /\ head_node(Self) = index(Self, 0).val
           /\ index(Self, length - 1).kind = "ok"
           /\ tail_node(Self) = index(Self, length - 1).val
           /\ is_some(node(Self, unwrap(tail_node(Self))).item)

(***************************************************************************)
(* C8.  push_back(x_0), ..., push_back(x_{n-1}) on a new() list: len() is  *)
(* n and list[i] holds x_i for every i in 0..n-1.  Checked under           *)
(* SpecPushBack, where ref is <<x_0, ..., x_{n-1}>> and nops is n.         *)
(***************************************************************************)
C8_PushBackReadsInPushOrder ==
    /\ ret.kind = "ok"
    /\ Len(ref) = nops
    /\ len(Self, debug_build) = Ok(Self, Some(nops))
    /\ \A i \in 0..(nops - 1) :
         /\ index(Self, i).kind = "ok"
         /\ item_at(Self, i) = Some(ref[i + 1])

C8_Witness ==
    /\ IsCall("push_back")
    /\ nops >= 3
    /\ ref[1] # ref[2]
    /\ item_at(Self, 2) = Some(ref[3])

(***************************************************************************)
(* C9.  push_front(x_0), ..., push_front(x_{n-1}) on a new() list: len()   *)
(* is n, list[i] holds x_{n-1-i} for every i in 0..n-1, and tail() is the  *)
(* slot of x_0.  Checked under SpecPushFront, where ref is                 *)
(* <<x_{n-1}, ..., x_0>> and nops is n.                                    *)
(***************************************************************************)
C9_PushFrontReadsInReverse ==
    /\ ret.kind = "ok"
    /\ Len(ref) = nops
    /\ len(Self, debug_build) = Ok(Self, Some(nops))
    /\ \A i \in 0..(nops - 1) :
         /\ index(Self, i).kind = "ok"
         /\ item_at(Self, i) = Some(ref[i + 1])
    /\ nops >= 1 =>
         /\ is_some(tail_node(Self))
         /\ tail_node(Self) = index(Self, nops - 1).val
         /\ node(Self, unwrap(tail_node(Self))).item = Some(ref[nops])

C9_Witness ==
    /\ IsCall("push_front")
    /\ nops >= 3
    /\ ref[1] # ref[nops]
    /\ node(Self, unwrap(tail_node(Self))).item = Some(ref[nops])
    /\ item_at(Self, 0) = ret.arg

(***************************************************************************)
(* C10.  push_back(x) followed immediately by delete(len()-1) returns x    *)
(* and restores len() and the elements reachable from head, while          *)
(* true_len() is not reduced.  Stated on the push_back step, the delete    *)
(* being applied to the list it leaves, for lists on which the slot-count  *)
(* assertion of len() holds.                                               *)
(***************************************************************************)
C10_after_delete == delete(Self, length - 1, debug_build)

C10_PushBackThenDeleteLast ==
    [][ (IsCall("push_back")' /\ ret'.kind = "ok" /\ slot_count_ok(Self))
          => /\ C10_after_delete'.kind = "ok"
             /\ C10_after_delete'.val = ret'.arg
             /\ C10_after_delete'.self.length = length
             /\ items(C10_after_delete.self)' = items(Self)
             /\ Len(C10_after_delete.self.data)' >= Len(data') ]_vars

(***************************************************************************)
(* Vocabulary of the structural claims                                     *)
(***************************************************************************)
\* length has never wrapped around: a larger length than the number of
\* calls can only come from the subtraction of C4
never_wrapped == max_len <= MaxOps

Slots == 0..(Len(data) - 1)
FreeSlots == {freelist[k] : k \in 1..Len(freelist)}
ChainSlots == {chain(Self)[k] : k \in 1..Len(chain(Self))}

(***************************************************************************)
(* C11.  Across any sequence of push_front, push_back, pop_front and       *)
(* delete, failing or not, true_len() never decreases from one state to    *)
(* the next.                                                               *)
(***************************************************************************)
C11_TrueLenNeverDecreases ==
    [][ /\ Len(data') >= Len(data)
        /\ (true_len(Self, debug_build).kind = "ok" /\ true_len(Self, debug_build)'.kind = "ok")
             => unwrap(true_len(Self, debug_build)'.val) >= unwrap(true_len(Self, debug_build).val)
      ]_vars

C11_Witness ==
    /\ ret.op \in {"pop_front", "delete"}
    /\ ret.kind = "ok"
    /\ is_some(ret.val)
    /\ length < Len(data)
    /\ Len(data) >= 3

(***************************************************************************)
(* C12.  In every state reachable from new(), true_len() equals the        *)
(* largest value len() has had so far (max_len).  Where the debug          *)
(* assertion of true_len() stops the call, the size of data is compared.   *)
(* Stated for runs in which length never wrapped around, so a violation    *)
(* does not rest on C4.                                                    *)
(***************************************************************************)
C12_TrueLenIsHighWaterMark ==
    never_wrapped =>
        /\ Len(data) = max_len
        /\ true_len(Self, debug_build).kind = "ok"
             => true_len(Self, debug_build).val = Some(max_len)

(***************************************************************************)
(* C13.  mem_used() is (sizeof(T) + sizeof(index)) * true_len() +          *)
(* sizeof(index) * (number of indices on the free list); it counts every   *)
(* slot of data, live or free, and does not depend on len().               *)
(***************************************************************************)
C13_MemUsedFormula ==
    /\ mem_used(Self) = 16 * Len(data) + 8 * Len(freelist)
    /\ true_len(Self, debug_build).kind = "ok"
         => mem_used(Self) = 16 * unwrap(true_len(Self, debug_build).val) + 8 * Len(freelist)
    /\ \A n \in 0..MaxOps : mem_used([Self EXCEPT !.length = n]) = mem_used(Self)

C13_Witness ==
    /\ Len(freelist) >= 1
    /\ length >= 1
    /\ length < Len(data)
    /\ mem_used(Self) = 16 * 3 + 8 * Len(freelist)

(***************************************************************************)
(* C14.  After every operation the size of data is length plus the size of *)
(* the free list, so the debug assertions of len() and true_len() never    *)
(* fail.  Stated for runs in which length never wrapped around, so a       *)
(* violation does not rest on C4.                                          *)
(***************************************************************************)
C14_SlotCountInvariant ==
    never_wrapped =>
        /\ Len(data) = length + Len(freelist)
        /\ len(Self, TRUE).kind = "ok"
        /\ true_len(Self, TRUE).kind = "ok"

(***************************************************************************)
(* C15.  When delete(i) removes the last element of a list with            *)
(* len() >= 2 (i = len()-1 >= 1), tail becomes the predecessor slot: the   *)
(* slot at position len()-1 of the shortened list, whose next is None, and *)
(* a following push_back(x) makes x the last element reachable from head.  *)
(* Stated for lists on which the slot-count assertion of len() holds.      *)
(***************************************************************************)
C15_pushed(x) == push_back(Self, x, debug_build).self

C15_DeleteLastMovesTail ==
    [][ (/\ IsCall("delete")' /\ ret'.kind = "ok"
         /\ argument' = length - 1 /\ argument' >= 1
         /\ slot_count_ok(Self))
          => /\ is_some(tail')
             /\ tail' = index(Self, length - 1)'.val
             /\ node(Self, unwrap(tail))'.next = None
             /\ \A x \in Values :
                  /\ Len(items(C15_pushed(x)))' = length
                  /\ items(C15_pushed(x))'[length] = Some(x) ]_vars

(***************************************************************************)
(* C16.  In every state with length >= 1 the chain from head has exactly   *)
(* length slots: the slot reached after length-1 follows is the tail slot  *)
(* and its next is None.  Stated for runs in which length never wrapped    *)
(* around.                                                                 *)
(***************************************************************************)
C16_ChainEndsAtTail ==
    (length >= 1 /\ never_wrapped /\ ret.kind = "ok")
        => /\ Len(chain(Self)) = length
           /\ index(Self, length - 1).kind = "ok"
           /\ index(Self, length - 1).val = tail
           /\ node(Self, unwrap(tail)).next = None

(***************************************************************************)
(* C17.  The next-links of the allocated slots (those not on the free      *)
(* list) form no cycle: no slot is reached again by following next from    *)
(* it, and the traversal from head terminates.                             *)
(***************************************************************************)
\* the slots met by following next from slot i, one step or more
C17_after(i) == walk(Self, node(Self, i).next, Len(data) + 1)

C17_NoCycle ==
    /\ \A i \in Slots \ FreeSlots :
         \A k \in 1..Len(C17_after(i)) : C17_after(i)[k] # i
    /\ ~fmt_diverges(Self)

(***************************************************************************)
(* C18.  No slot is orphaned: every index of data is reachable from head   *)
(* or on the free list, and exactly length slots are reachable from head.  *)
(* Stated for runs in which length never wrapped around.                   *)
(***************************************************************************)
C18_NoOrphanedSlot ==
    (never_wrapped /\ ret.kind = "ok")
        => /\ \A i \in Slots : i \in ChainSlots \/ i \in FreeSlots
           /\ Cardinality(ChainSlots) = length

(***************************************************************************)
(* C19.  The slots reachable from head and the slots on the free list are  *)
(* disjoint, and neither head nor tail designates a slot on the free list. *)
(***************************************************************************)
C19_LiveAndFreeDisjoint ==
    ret.kind = "ok"
        => /\ ChainSlots \cap FreeSlots = {}
           /\ is_some(head) => unwrap(head) \notin FreeSlots
           /\ is_some(tail) => unwrap(tail) \notin FreeSlots

(***************************************************************************)
(* C20.  Between operations every slot reachable from head has its item    *)
(* present, so Debug formatting never fails on an absent item.             *)
(***************************************************************************)
C20_LiveItemsPresent ==
    ret.kind = "ok"
        => /\ \A k \in 1..Len(items(Self)) : is_some(items(Self)[k])
           /\ fmt(Self).kind # "panic"

(***************************************************************************)
(* C21.  Every push_front/push_back allocates through one primitive: with  *)
(* a non-empty free list it takes one index off the free list, overwrites  *)
(* that slot in place and leaves true_len() unchanged; with an empty free  *)
(* list it appends one slot, true_len() grows by exactly one and the new   *)
(* last index is used.  No other operation changes the size of data.       *)
(***************************************************************************)
C21_is_push == IsCall("push_front") \/ IsCall("push_back")

\* the slot handed to the push that leads to the primed state
C21_slot == IF IsCall("push_front") THEN unwrap(head) ELSE unwrap(tail)

C21_AllocReusesOrAppends ==
    [][ /\ (C21_is_push' /\ freelist # <<>>)
             => /\ freelist' = SubSeq(freelist, 1, Len(freelist) - 1)
                /\ C21_slot' = freelist[Len(freelist)]
                /\ Len(data') = Len(data)
                /\ node(Self, C21_slot)'.item = ret'.arg
                /\ \A i \in Slots : i # C21_slot' => node(Self, i)'.item = node(Self, i).item
        /\ (C21_is_push' /\ freelist = <<>>)
             => /\ freelist' = <<>>
                /\ Len(data') = Len(data) + 1
                /\ C21_slot' = Len(data') - 1
                /\ node(Self, C21_slot)'.item = ret'.arg
                /\ \A i \in Slots : node(Self, i)'.item = node(Self, i).item
        /\ ~C21_is_push' => Len(data') = Len(data) ]_vars

\* in a debug build, the third call is a push that found the only slot of
\* data on the free list
C21_Witness ==
    /\ debug_build
    /\ C21_is_push
    /\ ret.kind = "ok"
    /\ nops = 3
    /\ Len(data) = 1
    /\ freelist = <<>>
    /\ node(Self, 0).item = ret.arg

(***************************************************************************)
(* C22.  In every reachable state the free list holds no index twice and   *)
(* only indices smaller than true_len(): no slot is recycled twice without *)
(* being allocated in between, so two later pushes never get the same slot.*)
(***************************************************************************)
C22_FreeListDistinctInBounds ==
    /\ \A j, k \in 1..Len(freelist) : freelist[j] = freelist[k] => j = k
    /\ \A k \in 1..Len(freelist) : freelist[k] >= 0 /\ freelist[k] < Len(data)
    /\ \A x, y \in Values :
         LET first == alloc(Self, LinkedNode(Some(x), None))
             second == alloc(first.self, LinkedNode(Some(y), None))
         IN  first.idx # second.idx

C22_Witness ==
    /\ Len(freelist) >= 2
    /\ ret.op \in {"pop_front", "delete"}
    /\ is_some(ret.val)
    /\ freelist[Len(freelist)] < freelist[1]

====
